---- MODULE Spec2Model ----
(***************************************************************************)
(* The domain-and-persistence layer of the expense tracker: the            *)
(* localStorage collection helpers (services/storage.js), the              *)
(* authentication service (services/auth.js) and the expense CRUD service  *)
(* (services/expensesService.js).                                          *)
(*                                                                         *)
(* JavaScript values are tagged records [t, s, n, a]:                      *)
(*   t = "absent"  the key is not present in the object                    *)
(*   t = "undef"   undefined            t = "null"  null                   *)
(*   t = "str"     a string, s its characters                              *)
(*   t = "num"     a finite number, n its value in thousandths             *)
(*   t = "nan"     a non-finite number (NaN, Infinity)                     *)
(*   t = "date"    a Date object, n = year*10000 + month*100 + day         *)
(*   t = "arr"     an array, a its elements (themselves tagged values)     *)
(* Strings are sequences of one-character strings so that trim, split,     *)
(* toLowerCase and the date pattern are computed and not assumed.          *)
(***************************************************************************)
EXTENDS Integers, Sequences, FiniteSets, TLC

\* ------------------------------------------------------------------ bounds
MaxUsers == 2
MaxExpenses == 2
MaxIds == 2
MaxLoads == 2
MaxWaiting == 2

\* ------------------------------------------------------------ JS values
Absent == [t |-> "absent", s |-> <<>>, n |-> 0, a |-> <<>>]
Undef == [t |-> "undef", s |-> <<>>, n |-> 0, a |-> <<>>]
Null == [t |-> "null", s |-> <<>>, n |-> 0, a |-> <<>>]
NaN == [t |-> "nan", s |-> <<>>, n |-> 0, a |-> <<>>]
Str(chars) == [t |-> "str", s |-> chars, n |-> 0, a |-> <<>>]
Num(thousandths) == [t |-> "num", s |-> <<>>, n |-> thousandths, a |-> <<>>]
DateObj(ymd) == [t |-> "date", s |-> <<>>, n |-> ymd, a |-> <<>>]
Arr(elems) == [t |-> "arr", s |-> <<>>, n |-> 0, a |-> elems]

\* v == null  (loose equality: null, undefined or a missing key)
IsNullish(v) == v.t \in {"absent", "undef", "null"}

\* !v
Falsy(v) ==
    \/ IsNullish(v)
    \/ v.t = "nan"
    \/ v.t = "str" /\ v.s = <<>>
    \/ v.t = "num" /\ v.n = 0

\* JSON.parse(JSON.stringify(v)) of one property value: undefined is dropped,
\* a non-finite number becomes null.
Json(v) ==
    CASE v.t = "undef" -> Absent
      [] v.t = "nan" -> Null
      [] OTHER -> v

\* ------------------------------------------------------------ JS strings
Digits == <<"0", "1", "2", "3", "4", "5", "6", "7", "8", "9">>
IsDigit(c) == \E i \in 1..10 : Digits[i] = c
DigitVal(c) == (CHOOSE i \in 1..10 : Digits[i] = c) - 1
IsSpace(c) == c = " "

RECURSIVE TrimStart(_)
TrimStart(s) ==
    IF s # <<>> /\ IsSpace(Head(s)) THEN TrimStart(Tail(s)) ELSE s

RECURSIVE TrimEnd(_)
TrimEnd(s) ==
    IF s # <<>> /\ IsSpace(s[Len(s)]) THEN TrimEnd(SubSeq(s, 1, Len(s) - 1)) ELSE s

\* String.prototype.trim
Trim(s) == TrimEnd(TrimStart(s))

LowerChar(c) ==
    CASE c = "A" -> "a"
      [] c = "B" -> "b"
      [] c = "X" -> "x"
      [] OTHER -> c

\* String.prototype.toLowerCase
ToLowerCase(s) == [i \in 1..Len(s) |-> LowerChar(s[i])]

\* String.prototype.split(',')
RECURSIVE SplitComma(_, _)
SplitComma(s, cur) ==
    IF s = <<>> THEN <<cur>>
    ELSE IF Head(s) = "," THEN <<cur>> \o SplitComma(Tail(s), <<>>)
    ELSE SplitComma(Tail(s), Append(cur, Head(s)))

\* The decimal digits of a natural number.
RECURSIVE NatToStr(_)
NatToStr(k) ==
    IF k < 10 THEN <<Digits[k + 1]>> ELSE Append(NatToStr(k \div 10), Digits[(k % 10) + 1])

\* String(k).padStart(2, '0')
PadStart2(k) == IF k < 10 THEN <<"0">> \o NatToStr(k) ELSE NatToStr(k)

\* The fraction digits of a number given in thousandths, trailing zeros dropped.
FracStr(f) ==
    IF f = 0 THEN <<>>
    ELSE IF f % 100 = 0 THEN <<".", Digits[(f \div 100) + 1]>>
    ELSE IF f % 10 = 0 THEN <<".", Digits[(f \div 100) + 1], Digits[((f \div 10) % 10) + 1]>>
    ELSE <<".", Digits[(f \div 100) + 1], Digits[((f \div 10) % 10) + 1], Digits[(f % 10) + 1]>>

\* String(v) for the values that can be elements of tags.
ToStr(v) ==
    CASE v.t = "str" -> v.s
      [] v.t = "num" ->
            IF v.n < 0 THEN <<"-">> \o NatToStr((0 - v.n) \div 1000) \o FracStr((0 - v.n) % 1000)
            ELSE NatToStr(v.n \div 1000) \o FracStr(v.n % 1000)
      [] v.t = "nan" -> <<"N", "a", "N">>
      [] v.t = "null" -> <<"n", "u", "l", "l">>
      [] OTHER -> <<"u", "n", "d", "e", "f", "i", "n", "e", "d">>

AllDigits(s) == \A i \in 1..Len(s) : IsDigit(s[i])

RECURSIVE DigitsVal(_)
DigitsVal(s) == IF s = <<>> THEN 0 ELSE DigitsVal(SubSeq(s, 1, Len(s) - 1)) * 10 + DigitVal(s[Len(s)])

\* The fraction digits (at most three) as thousandths.
FracVal(s) ==
    CASE Len(s) = 0 -> 0
      [] Len(s) = 1 -> DigitVal(s[1]) * 100
      [] Len(s) = 2 -> DigitVal(s[1]) * 100 + DigitVal(s[2]) * 10
      [] OTHER -> DigitVal(s[1]) * 100 + DigitVal(s[2]) * 10 + DigitVal(s[3])

DotAt(s) == IF \E i \in 1..Len(s) : s[i] = "." THEN CHOOSE i \in 1..Len(s) : s[i] = "." ELSE 0

\* Number(str): whitespace is ignored, the empty string is 0, an unsigned decimal
\* numeral (up to three fraction digits in this model) is its value, anything
\* else is NaN.
ToNumber(s) ==
    LET u == Trim(s)
        d == DotAt(u)
        ip == IF d = 0 THEN u ELSE SubSeq(u, 1, d - 1)
        fp == IF d = 0 THEN <<>> ELSE SubSeq(u, d + 1, Len(u))
    IN  IF u = <<>> THEN Num(0)
        ELSE IF AllDigits(ip) /\ AllDigits(fp) /\ Len(ip) + Len(fp) > 0 /\ Len(fp) <= 3
             THEN Num(DigitsVal(ip) * 1000 + FracVal(fp))
        ELSE NaN

\* Numbers of the magnitude 4e13.  The doubles from 2^45 to 2^46 are 1/128
\* apart, so an amount there is 40000000000000 + m/128 for a natural m: the
\* number value whose n is Huge + m stands for that double (40000000000000.086
\* is m = 11).  Below Huge, n is the value in thousandths.
Huge == 1000000000

\* IEEE 754 round to nearest, ties to even, of the exact quotient num/den.
RoundTiesEven(num, den) ==
    LET q == num \div den
        r == num % den
    IN  IF 2 * r > den \/ (2 * r = den /\ q % 2 = 1) THEN q + 1 ELSE q

\* Math.round((x + Number.EPSILON) * 100) / 100 for x = 40000000000000 + m/128,
\* in double arithmetic.  x + 2^-52 is x.  x * 100 is 4e15 + 25m/32, between
\* 2^51 and 2^52 where doubles are 1/2 apart: the product is 4e15 + h/2 with
\* h = 25m/16 rounded.  Math.round gives 4e15 + j with j = floor((h + 1)/2).
\* The quotient 4e13 + j/100 is rounded to the nearest multiple of 1/128.
Round2Huge(m) ==
    LET h == RoundTiesEven(25 * m, 16)
        j == (h + 1) \div 2
    IN  RoundTiesEven(32 * j, 25)

\* Math.floor in place of Math.round
Round2Down(x) == (x \div 10) * 10

\* Math.round((x + Number.EPSILON) * 100) / 100: x in thousandths, rounded half
\* up to a whole number of hundredths.
Round2(x) ==
    IF x >= Huge THEN Huge + Round2Huge(x - Huge) ELSE ((x + 5) \div 10) * 10

\* /^\d{4}-\d{2}-\d{2}$/.test(s)
IsYMD(s) ==
    /\ Len(s) = 10
    /\ \A i \in {1, 2, 3, 4, 6, 7, 9, 10} : IsDigit(s[i])
    /\ s[5] = "-"
    /\ s[8] = "-"

\* `${y}-${m}-${d}` of a Date object (getFullYear, getMonth() + 1, getDate).
FormatDate(ymd) ==
    NatToStr(ymd \div 10000) \o <<"-">> \o PadStart2((ymd \div 100) % 100)
        \o <<"-">> \o PadStart2(ymd % 100)

\* ------------------------------------------------------------ expenses
\* An expense object.  userId is a user id, 0 when the object has none.  by is
\* a history field the program does not have: the user id of the session under
\* which the record entered the collection (0 for a seeded record).
Expense(id, date, amount, category, description, paymentMethod, tags, userId) ==
    [id |-> id, date |-> date, amount |-> amount, category |-> category,
     description |-> description, paymentMethod |-> paymentMethod, tags |-> tags,
     userId |-> userId, by |-> 0]

\* One property of { ...base, ...over }: a key present in over wins, also when
\* its value is undefined.
Over(b, o) == IF o.t = "absent" THEN b ELSE o

\* { ...base, ...over }
Spread(base, over) ==
    [id |-> Over(base.id, over.id),
     date |-> Over(base.date, over.date),
     amount |-> Over(base.amount, over.amount),
     category |-> Over(base.category, over.category),
     description |-> Over(base.description, over.description),
     paymentMethod |-> Over(base.paymentMethod, over.paymentMethod),
     tags |-> Over(base.tags, over.tags),
     userId |-> IF over.userId = 0 THEN base.userId ELSE over.userId,
     by |-> base.by]

\* JSON.parse(JSON.stringify(e)) of an expense object.
JsonExpense(e) ==
    [id |-> Json(e.id), date |-> Json(e.date), amount |-> Json(e.amount),
     category |-> Json(e.category), description |-> Json(e.description),
     paymentMethod |-> Json(e.paymentMethod), tags |-> Json(e.tags),
     userId |-> e.userId, by |-> e.by]

NotNullish(v) == ~IsNullish(v)

NonEmptyStr(v) == v.s # <<>>

normalizeDate(v) ==
    CASE v.t = "date" -> Str(FormatDate(v.n))
      [] v.t = "str" -> Str(Trim(v.s))
      [] OTHER -> v

normalizeAmount(v) ==
    LET parsed == IF v.t = "str" /\ ToNumber(v.s).t = "num" THEN ToNumber(v.s) ELSE v
    IN  IF parsed.t = "num" THEN Num(Round2(parsed.n)) ELSE parsed

normalizeString(v) == IF v.t = "str" THEN Str(Trim(v.s)) ELSE v

normalizeTags(v) ==
    CASE v.t = "arr" ->
            LET notNull == SelectSeq(v.a, NotNullish)
                trimmed == [i \in 1..Len(notNull) |-> Str(Trim(ToStr(notNull[i])))]
            IN  Arr(SelectSeq(trimmed, NonEmptyStr))
      [] v.t = "str" ->
            LET parts == SplitComma(v.s, <<>>)
                trimmed == [i \in 1..Len(parts) |-> Str(Trim(parts[i]))]
            IN  Arr(SelectSeq(trimmed, NonEmptyStr))
      [] IsNullish(v) -> Arr(<<>>)
      [] OTHER -> Arr(SelectSeq(<<Str(Trim(ToStr(v)))>>, NonEmptyStr))

normalizeExpense(raw) ==
    [raw EXCEPT !.date = normalizeDate(@),
                !.amount = normalizeAmount(@),
                !.category = normalizeString(@),
                !.description = normalizeString(@),
                !.paymentMethod = normalizeString(@),
                !.tags = normalizeTags(@)]

\* validateExpense without the YYYY-MM-DD test
validateExpenseNoDateShape(e) ==
    IF e.date.t # "str" \/ Trim(e.date.s) = <<>>
        THEN "Field \"date\" must be a non-empty string"
    ELSE IF e.category.t # "str" \/ Trim(e.category.s) = <<>>
        THEN "Field \"category\" must be a non-empty string"
    ELSE IF e.amount.t # "num"
        THEN "Field \"amount\" must be a finite number"
    ELSE IF e.tags.t # "arr"
        THEN "Field \"tags\" must be an array of strings"
    ELSE ""

\* validateExpense: the message of the Error it throws, "" when it returns.
validateExpense(e) ==
    IF e.date.t # "str" \/ Trim(e.date.s) = <<>>
        THEN "Field \"date\" must be a non-empty string"
    ELSE IF e.category.t # "str" \/ Trim(e.category.s) = <<>>
        THEN "Field \"category\" must be a non-empty string"
    ELSE IF e.amount.t # "num"
        THEN "Field \"amount\" must be a finite number"
    ELSE IF ~IsYMD(e.date.s)
        THEN "Field \"date\" must be in format YYYY-MM-DD"
    ELSE IF ~IsNullish(e.description) /\ e.description.t # "str"
        THEN "Field \"description\" must be a string if provided"
    ELSE IF ~IsNullish(e.paymentMethod) /\ e.paymentMethod.t # "str"
        THEN "Field \"paymentMethod\" must be a string if provided"
    ELSE IF e.tags.t # "arr"
        THEN "Field \"tags\" must be an array of strings"
    ELSE IF \E i \in 1..Len(e.tags.a) : e.tags.a[i].t # "str"
        THEN "All \"tags\" must be strings"
    ELSE ""

ValidationMessages ==
    {"Field \"date\" must be a non-empty string",
     "Field \"category\" must be a non-empty string",
     "Field \"amount\" must be a finite number",
     "Field \"date\" must be in format YYYY-MM-DD",
     "Field \"description\" must be a string if provided",
     "Field \"paymentMethod\" must be a string if provided",
     "Field \"tags\" must be an array of strings",
     "All \"tags\" must be strings"}

\* ------------------------------------------------------------ state
VARIABLES
    users,      \* localStorage[auth_users_v1]: the list of user records
    session,    \* localStorage[auth_session_v1]: { userId }, userId 0 when the key is absent
    expenses,   \* localStorage[expenses_data_v1]: present (the key holds a value) and its list
    nextId,     \* the number of expense ids generateId() has handed out, plus one
    nextUserId, \* the number of user ids signUp has made, plus one
    medium,     \* the localStorage methods that throw at present (quota exceeded, access blocked)
    loads,      \* the loadSeed() calls made so far: for each, whether the fetch succeeds (history)
    waiting,    \* the calls suspended at an await (started, not yet returned), with what each holds
    last        \* the last call: its name, arguments and outcome (history)

vars == <<users, session, expenses, nextId, nextUserId, medium, loads, waiting, last>>

NoSession == [userId |-> 0]

\* getSession(): null when the read throws
getSession == IF "getItem" \in medium THEN NoSession ELSE session

\* session?.userId || null, 0 for null
SessionUserId == getSession.userId

\* setSession without the removeItem branch: null leaves the key as it is
setSessionNoRemove(s) ==
    IF s.userId # 0
    THEN IF "setItem" \in medium THEN session ELSE s
    ELSE session

\* setSession(session): setItem for an object, removeItem for null; the key
\* afterwards.
setSession(s) ==
    IF s.userId # 0
    THEN IF "setItem" \in medium THEN session ELSE s
    ELSE IF "removeItem" \in medium THEN session ELSE NoSession

\* getUsers(): [] when the key is absent or the read throws
getUsers == IF "getItem" \in medium THEN <<>> ELSE users

\* setUsers(list): the key afterwards
setUsers(list) == IF "setItem" \in medium THEN users ELSE list

NoExpense == Expense(Absent, Absent, Absent, Absent, Absent, Absent, Absent, 0)
NoBatch == [isArray |-> FALSE, items |-> <<>>]

Credentials(name, email, password) == [name |-> name, email |-> email, password |-> password]
NoCredentials == Credentials(Absent, Absent, Absent)

\* null where a user object is expected
NoUser == [id |-> 0, name |-> <<>>, email |-> <<>>]

\* The record of a call: op its name, user the session's user id when it was
\* made, id / arg / batch / cred its arguments, ok whether it returned (else err
\* is the message of the Error thrown), ret the expense or expenses returned,
\* flag a boolean returned, usr the user object returned (NoUser for none).
Call(op, id, arg, batch, cred, ok, err, ret, flag, usr) ==
    [op |-> op, user |-> SessionUserId, id |-> id, arg |-> arg, batch |-> batch,
     cred |-> cred, ok |-> ok, err |-> err, ret |-> ret, flag |-> flag, usr |-> usr]

\* ------------------------------------------------------------ storage.js
\* The bundled seed-expenses.json: records without a userId.
SeedData ==
    <<Expense(Str(<<"s", "1">>), Str(<<"2", "0", "2", "4", "-", "0", "1", "-", "0", "2">>),
              Num(42000), Str(<<"S", "e", "e", "d">>), Absent, Absent, Arr(<<>>), 0)>>

\* loadSeed(): the fetched array, or an Error (fetch rejected, or !res.ok).
SeedOutcomes == {[ok |-> TRUE, value |-> SeedData], [ok |-> FALSE, value |-> <<>>]}

NoKey == [present |-> FALSE, list |-> <<>>]

\* safeGetItem(key): null (as for an absent key) when the read throws
safeGetItem(store) == IF "getItem" \in medium THEN NoKey ELSE store

\* safeSetItem(key, value): the key afterwards; a write that throws changes nothing
safeSetItem(store, value) == IF "setItem" \in medium THEN store ELSE value

\* The outcomes of the loadSeed() call a getAll on this key makes: it makes none
\* when safeGetItem(key) gives a value.
Loads(store) == IF safeGetItem(store).present THEN {[ok |-> FALSE, value |-> <<>>]} ELSE SeedOutcomes

JsonList(list) == [i \in 1..Len(list) |-> JsonExpense(list[i])]

\* getAll without the fallback write: when loadSeed throws, [] is returned and
\* the key is left unset.
getAllNoFallback(store, seed) ==
    IF safeGetItem(store).present
    THEN [store |-> store, value |-> store.list, loads |-> loads]
    ELSE IF seed.ok
         THEN [store |-> safeSetItem(store, [present |-> TRUE, list |-> JsonList(seed.value)]),
               value |-> seed.value, loads |-> Append(loads, TRUE)]
    ELSE [store |-> store, value |-> <<>>, loads |-> Append(loads, FALSE)]

\* getAll(StorageKeys.EXPENSES): the stored list when safeGetItem gives one; else
\* the seed, persisted, or [] persisted when loadSeed throws.  store is the key
\* afterwards, value what getAll returns, loads the loadSeed() calls made.
getAll(store, seed) ==
    IF safeGetItem(store).present
    THEN [store |-> store, value |-> store.list, loads |-> loads]
    ELSE IF seed.ok
         THEN [store |-> safeSetItem(store, [present |-> TRUE, list |-> JsonList(seed.value)]),
               value |-> seed.value, loads |-> Append(loads, TRUE)]
    ELSE [store |-> safeSetItem(store, [present |-> TRUE, list |-> <<>>]),
          value |-> <<>>, loads |-> Append(loads, FALSE)]

\* setAll(key, value)
setAll(store, value) == safeSetItem(store, [present |-> TRUE, list |-> JsonList(value)])

\* addItem(key, item).  safeParse(null, []) is JSON.parse(null), which is null
\* and does not reach the fallback, so when safeGetItem gives null (absent key,
\* or a read that throws) [...list, item] throws a TypeError before anything is
\* written.
\* addItem that writes the new item alone, without the stored list
addItemAlone(store, item) ==
    IF safeGetItem(store).present
    THEN [threw |-> FALSE,
          store |-> safeSetItem(store, [present |-> TRUE, list |-> JsonList(<<item>>)])]
    ELSE [threw |-> TRUE, store |-> store]

addItem(store, item) ==
    IF safeGetItem(store).present
    THEN [threw |-> FALSE,
          store |-> safeSetItem(store, [present |-> TRUE, list |-> JsonList(Append(store.list, item))])]
    ELSE [threw |-> TRUE, store |-> store]

\* The predicate without the owner test, (e) => e.id === id
MatchesIdOnly(e, id, userId) == e.id = id

\* The predicate (e) => e.id === id && e.userId === userId
Matches(e, id, userId) == e.id = id /\ e.userId = userId

\* updateItem(key, predicate, () => normalized)
\* updateItem that leaves the stored list as it is
updateItemNoWrite(store, id, userId, normalized) ==
    [threw |-> ~safeGetItem(store).present, store |-> store]

updateItem(store, id, userId, normalized) ==
    IF safeGetItem(store).present
    THEN [threw |-> FALSE,
          store |-> safeSetItem(store,
                     [present |-> TRUE,
                      list |-> JsonList([i \in 1..Len(store.list) |->
                                 IF Matches(store.list[i], id, userId)
                                 THEN Spread(store.list[i], normalized)
                                 ELSE store.list[i]])])]
    ELSE [threw |-> TRUE, store |-> store]

\* removeItem with a predicate that tests the id alone
removeItemById(store, id, userId) ==
    LET Keep(e) == e.id # id
    IN  IF safeGetItem(store).present
        THEN [threw |-> FALSE,
              store |-> safeSetItem(store, [present |-> TRUE, list |-> SelectSeq(store.list, Keep)])]
        ELSE [threw |-> TRUE, store |-> store]

\* removeItem(key, predicate)
removeItem(store, id, userId) ==
    LET Keep(e) == ~Matches(e, id, userId)
    IN  IF safeGetItem(store).present
        THEN [threw |-> FALSE,
              store |-> safeSetItem(store, [present |-> TRUE, list |-> SelectSeq(store.list, Keep)])]
        ELSE [threw |-> TRUE, store |-> store]

\* clear(key): the key afterwards, and the boolean returned
clear(store) ==
    IF "removeItem" \in medium THEN [store |-> store, flag |-> FALSE]
    ELSE [store |-> NoKey, flag |-> TRUE]

\* ------------------------------------------------------------ auth.js
\* A user record; createdAt, which nothing reads, is left out.
User(id, name, email, password) ==
    [id |-> id, name |-> name, email |-> email, password |-> password]

\* const { password: _pw, ...safe } = user, with the password kept
SafeKeepPassword(user) == user

\* const { password: _pw, ...safe } = user
Safe(user) == [id |-> user.id, name |-> user.name, email |-> user.email]

\* `u_${Date.now().toString(36)}_${Math.random().toString(36).slice(2, 8)}`:
\* an id no earlier user has.
NewUserId == nextUserId

\* NormalEmail without toLowerCase()
NormalEmailKeepCase(email) == Trim(ToStr(email))

\* String(email).trim().toLowerCase()
NormalEmail(email) == ToLowerCase(Trim(ToStr(email)))

signUp(name, email, password) ==
    LET list == getUsers
        emailLower == NormalEmail(email)
        exists == \E i \in 1..Len(list) : ToLowerCase(list[i].email) = emailLower
        user == User(NewUserId, Trim(ToStr(name)), emailLower, ToStr(password))
    IN  /\ UNCHANGED <<expenses, nextId, loads>>
        /\ IF Falsy(email) \/ Falsy(password) \/ Falsy(name)
           THEN /\ last' = Call("signUp", Absent, NoExpense, NoBatch, Credentials(name, email, password),
                                FALSE, "Name, email and password are required", <<>>, FALSE, NoUser)
                /\ UNCHANGED <<users, session, nextUserId>>
           ELSE IF exists
           THEN /\ last' = Call("signUp", Absent, NoExpense, NoBatch, Credentials(name, email, password),
                                FALSE, "An account with this email already exists", <<>>, FALSE, NoUser)
                /\ UNCHANGED <<users, session, nextUserId>>
           ELSE /\ nextUserId <= MaxUsers
                /\ nextUserId' = nextUserId + 1
                /\ users' = setUsers(Append(list, user))
                /\ session' = setSession([userId |-> user.id])
                /\ last' = Call("signUp", Absent, NoExpense, NoBatch, Credentials(name, email, password),
                                TRUE, "", <<>>, FALSE, Safe(user))

\* logIn with a message of its own for an email no user has
\* logIn that drops the session before it looks the user up
logInDropsSession(email, password) ==
    LET list == getUsers
        emailLower == NormalEmail(email)
        Found(i) == /\ ToLowerCase(list[i].email) = emailLower
                    /\ list[i].password = ToStr(password)
        user == list[CHOOSE i \in 1..Len(list) : Found(i) /\ \A j \in 1..(i - 1) : ~Found(j)]
    IN  /\ UNCHANGED <<users, expenses, nextId, nextUserId, loads>>
        /\ IF Falsy(email) \/ Falsy(password)
           THEN /\ last' = Call("logIn", Absent, NoExpense, NoBatch, Credentials(Absent, email, password),
                                FALSE, "Email and password are required", <<>>, FALSE, NoUser)
                /\ UNCHANGED session
           ELSE IF ~\E i \in 1..Len(list) : Found(i)
           THEN /\ last' = Call("logIn", Absent, NoExpense, NoBatch, Credentials(Absent, email, password),
                                FALSE, "Invalid email or password", <<>>, FALSE, NoUser)
                /\ session' = setSession(NoSession)
           ELSE /\ session' = setSession([userId |-> user.id])
                /\ last' = Call("logIn", Absent, NoExpense, NoBatch, Credentials(Absent, email, password),
                                TRUE, "", <<>>, FALSE, Safe(user))

logInLeaky(email, password) ==
    LET list == getUsers
        emailLower == NormalEmail(email)
        Known(i) == ToLowerCase(list[i].email) = emailLower
        Found(i) == Known(i) /\ list[i].password = ToStr(password)
        user == list[CHOOSE i \in 1..Len(list) : Found(i) /\ \A j \in 1..(i - 1) : ~Found(j)]
    IN  /\ UNCHANGED <<users, expenses, nextId, nextUserId, loads>>
        /\ IF Falsy(email) \/ Falsy(password)
           THEN /\ last' = Call("logIn", Absent, NoExpense, NoBatch, Credentials(Absent, email, password),
                                FALSE, "Email and password are required", <<>>, FALSE, NoUser)
                /\ UNCHANGED session
           ELSE IF ~\E i \in 1..Len(list) : Known(i)
           THEN /\ last' = Call("logIn", Absent, NoExpense, NoBatch, Credentials(Absent, email, password),
                                FALSE, "No account with this email", <<>>, FALSE, NoUser)
                /\ UNCHANGED session
           ELSE IF ~\E i \in 1..Len(list) : Found(i)
           THEN /\ last' = Call("logIn", Absent, NoExpense, NoBatch, Credentials(Absent, email, password),
                                FALSE, "Invalid email or password", <<>>, FALSE, NoUser)
                /\ UNCHANGED session
           ELSE /\ session' = setSession([userId |-> user.id])
                /\ last' = Call("logIn", Absent, NoExpense, NoBatch, Credentials(Absent, email, password),
                                TRUE, "", <<>>, FALSE, Safe(user))

logIn(email, password) ==
    LET list == getUsers
        emailLower == NormalEmail(email)
        Found(i) == /\ ToLowerCase(list[i].email) = emailLower
                    /\ list[i].password = ToStr(password)
        user == list[CHOOSE i \in 1..Len(list) : Found(i) /\ \A j \in 1..(i - 1) : ~Found(j)]
    IN  /\ UNCHANGED <<users, expenses, nextId, nextUserId, loads>>
        /\ IF Falsy(email) \/ Falsy(password)
           THEN /\ last' = Call("logIn", Absent, NoExpense, NoBatch, Credentials(Absent, email, password),
                                FALSE, "Email and password are required", <<>>, FALSE, NoUser)
                /\ UNCHANGED session
           ELSE IF ~\E i \in 1..Len(list) : Found(i)
           THEN /\ last' = Call("logIn", Absent, NoExpense, NoBatch, Credentials(Absent, email, password),
                                FALSE, "Invalid email or password", <<>>, FALSE, NoUser)
                /\ UNCHANGED session
           ELSE /\ session' = setSession([userId |-> user.id])
                /\ last' = Call("logIn", Absent, NoExpense, NoBatch, Credentials(Absent, email, password),
                                TRUE, "", <<>>, FALSE, Safe(user))

logOut ==
    /\ session' = setSession(NoSession)
    /\ last' = Call("logOut", Absent, NoExpense, NoBatch, NoCredentials, TRUE, "", <<>>, TRUE, NoUser)
    /\ UNCHANGED <<users, expenses, nextId, nextUserId, loads>>

\* getCurrentUser(): null with no session, or when no user has the session's id
getCurrentUser ==
    LET list == getUsers
        Is(i) == list[i].id = getSession.userId
    IN  IF getSession.userId = 0 THEN NoUser
        ELSE IF \E i \in 1..Len(list) : Is(i)
        THEN Safe(list[CHOOSE i \in 1..Len(list) : Is(i) /\ \A j \in 1..(i - 1) : ~Is(j)])
        ELSE NoUser

\* ------------------------------------------------------------ expensesService.js
\* Authenticated with the check left out
AuthenticatedAlways(userId) == TRUE

\* if (!userId) throw new Error('Not authenticated'): the check create, update,
\* remove and replaceAll make; this is the condition under which they go on.
Authenticated(userId) == userId # 0

\* generateId(): `exp_${Date.now().toString(36)}_${Math.random()...}`, the k-th
\* id handed out; no two calls return the same id.
generateId(k) == Str(<<"g">> \o NatToStr(k))

\* withMeta with userId written before the spread, { id, userId, ...e }: a
\* userId in e then wins.
withMetaSpreadLast(e, gen, userId) ==
    [Spread([NoExpense EXCEPT !.id = IF Falsy(e.id) THEN gen ELSE e.id], e)
        EXCEPT !.userId = IF e.userId # 0 THEN e.userId ELSE userId, !.by = userId]

\* { id: e?.id || generateId(), ...e, userId }: the generated id stands only
\* when e has no id key; userId, written last, replaces any userId of e.
withMeta(e, gen, userId) ==
    [Spread([NoExpense EXCEPT !.id = IF Falsy(e.id) THEN gen ELSE e.id], e)
        EXCEPT !.userId = userId, !.by = userId]

\* e?.id || generateId() calls generateId
NeedsId(e) == Falsy(e.id)

\* list.find((e) => e.id === id && e.userId === userId): 0 when there is none
FindIndex(list, id, userId) ==
    IF \E i \in 1..Len(list) : Matches(list[i], id, userId)
    THEN CHOOSE i \in 1..Len(list) :
            /\ Matches(list[i], id, userId)
            /\ \A j \in 1..(i - 1) : ~Matches(list[j], id, userId)
    ELSE 0

\* Mine with the records that carry no userId let through
MineOrUnowned(list, userId) ==
    LET Own(e) == e.userId \in {userId, 0}
    IN  SelectSeq(list, Own)

\* list.filter((e) => e.userId === userId)
Mine(list, userId) ==
    LET Own(e) == e.userId = userId
    IN  SelectSeq(list, Own)

\* Others with the other users' records dropped: replaceAll then overwrites
\* the whole collection.
OthersDropped(list, userId) == <<>>

\* all.filter((e) => e.userId !== userId)
Others(list, userId) ==
    LET NotOwn(e) == e.userId # userId
    IN  SelectSeq(list, NotOwn)

NormalizeAll(list) == [i \in 1..Len(list) |-> normalizeExpense(list[i])]

listExpenses(seed) ==
    LET userId == SessionUserId
        got == getAll(expenses, seed)
        mine == IF userId # 0 THEN Mine(got.value, userId) ELSE <<>>
    IN  /\ expenses' = got.store
        /\ loads' = got.loads
        /\ last' = Call("listExpenses", Absent, NoExpense, NoBatch, NoCredentials, TRUE, "",
                        NormalizeAll(mine), FALSE, NoUser)
        /\ UNCHANGED <<users, session, nextId>>

getById(id, seed) ==
    LET userId == SessionUserId
        got == getAll(expenses, seed)
        found == FindIndex(got.value, id, userId)
    IN  /\ UNCHANGED <<users, session, nextId>>
        /\ IF Falsy(id) \/ userId = 0
           THEN /\ last' = Call("getById", id, NoExpense, NoBatch, NoCredentials, TRUE, "", <<>>, FALSE, NoUser)
                /\ UNCHANGED <<expenses, loads>>
           ELSE /\ expenses' = got.store
                /\ loads' = got.loads
                /\ last' = Call("getById", id, NoExpense, NoBatch, NoCredentials, TRUE, "",
                                IF found # 0 THEN <<normalizeExpense(got.value[found])>> ELSE <<>>,
                                found # 0, NoUser)

create(expense) ==
    LET userId == SessionUserId
        normalized == normalizeExpense(withMeta(expense, generateId(nextId), userId))
        invalid == validateExpense(normalized)
        added == addItem(expenses, normalized)
    IN  /\ UNCHANGED <<users, session, loads>>
        /\ IF ~Authenticated(userId)
           THEN /\ last' = Call("create", Absent, expense, NoBatch, NoCredentials, FALSE,
                                "Not authenticated", <<>>, FALSE, NoUser)
                /\ UNCHANGED <<expenses, nextId>>
           ELSE IF invalid # ""
           THEN /\ last' = Call("create", Absent, expense, NoBatch, NoCredentials, FALSE, invalid, <<>>, FALSE, NoUser)
                /\ UNCHANGED <<expenses, nextId>>
           ELSE IF added.threw
           THEN /\ last' = Call("create", Absent, expense, NoBatch, NoCredentials, FALSE, "TypeError", <<>>, FALSE, NoUser)
                /\ UNCHANGED <<expenses, nextId>>
           ELSE /\ Len(expenses.list) < MaxExpenses
                /\ NeedsId(expense) => nextId <= MaxIds
                /\ expenses' = added.store
                /\ nextId' = IF NeedsId(expense) THEN nextId + 1 ELSE nextId
                /\ last' = Call("create", Absent, expense, NoBatch, NoCredentials, TRUE, "", <<normalized>>, FALSE, NoUser)

update(id, partial, seed) ==
    LET userId == SessionUserId
        got == getAll(expenses, seed)
        found == FindIndex(got.value, id, userId)
        existing == got.value[found]
        merged == [Spread(existing, partial) EXCEPT !.id = id, !.userId = userId]
        normalized == normalizeExpense(merged)
        invalid == validateExpense(normalized)
        updated == updateItem(got.store, id, userId, normalized)
    IN  /\ UNCHANGED <<users, session, nextId>>
        /\ IF Falsy(id)
           THEN /\ last' = Call("update", id, partial, NoBatch, NoCredentials, FALSE,
                                "Id is required for update", <<>>, FALSE, NoUser)
                /\ UNCHANGED <<expenses, loads>>
           ELSE IF ~Authenticated(userId)
           THEN /\ last' = Call("update", id, partial, NoBatch, NoCredentials, FALSE,
                                "Not authenticated", <<>>, FALSE, NoUser)
                /\ UNCHANGED <<expenses, loads>>
           ELSE IF found = 0
           THEN /\ last' = Call("update", id, partial, NoBatch, NoCredentials, FALSE,
                                "Expense not found", <<>>, FALSE, NoUser)
                /\ expenses' = got.store
                /\ loads' = got.loads
           ELSE IF invalid # ""
           THEN /\ last' = Call("update", id, partial, NoBatch, NoCredentials, FALSE, invalid, <<>>, FALSE, NoUser)
                /\ expenses' = got.store
                /\ loads' = got.loads
           ELSE IF updated.threw
           THEN /\ last' = Call("update", id, partial, NoBatch, NoCredentials, FALSE, "TypeError", <<>>, FALSE, NoUser)
                /\ expenses' = got.store
                /\ loads' = got.loads
           ELSE /\ expenses' = updated.store
                /\ loads' = got.loads
                /\ last' = Call("update", id, partial, NoBatch, NoCredentials, TRUE, "", <<normalized>>, FALSE, NoUser)

remove(id, seed) ==
    LET userId == SessionUserId
        got == getAll(expenses, seed)
        had == \E i \in 1..Len(got.value) : Matches(got.value[i], id, userId)
        removed == removeItem(got.store, id, userId)
    IN  /\ UNCHANGED <<users, session, nextId>>
        /\ IF Falsy(id)
           THEN /\ last' = Call("remove", id, NoExpense, NoBatch, NoCredentials, TRUE, "", <<>>, FALSE, NoUser)
                /\ UNCHANGED <<expenses, loads>>
           ELSE IF ~Authenticated(userId)
           THEN /\ last' = Call("remove", id, NoExpense, NoBatch, NoCredentials, FALSE,
                                "Not authenticated", <<>>, FALSE, NoUser)
                /\ UNCHANGED <<expenses, loads>>
           ELSE IF removed.threw
           THEN /\ last' = Call("remove", id, NoExpense, NoBatch, NoCredentials, FALSE, "TypeError", <<>>, FALSE, NoUser)
                /\ expenses' = got.store
                /\ loads' = got.loads
           ELSE /\ expenses' = removed.store
                /\ loads' = got.loads
                /\ last' = Call("remove", id, NoExpense, NoBatch, NoCredentials, TRUE, "", <<>>, had, NoUser)

\* The number of generateId() calls expenses.map makes before element i.
RECURSIVE IdsBefore(_, _)
IdsBefore(items, i) ==
    IF i <= 1 THEN 0
    ELSE IdsBefore(items, i - 1) + (IF NeedsId(items[i - 1]) THEN 1 ELSE 0)

replaceAll(batch, seed) ==
    LET userId == SessionUserId
        got == getAll(expenses, seed)
        others == Others(got.value, userId)
        items == batch.items
        normalizedMine ==
            [i \in 1..Len(items) |->
                normalizeExpense(withMeta(items[i], generateId(nextId + IdsBefore(items, i)), userId))]
        Invalid(i) == validateExpense(normalizedMine[i]) # ""
        firstInvalid == CHOOSE i \in 1..Len(items) : Invalid(i) /\ \A j \in 1..(i - 1) : ~Invalid(j)
        finalList == others \o normalizedMine
        generated == IdsBefore(items, Len(items) + 1)
    IN  /\ UNCHANGED <<users, session>>
        /\ IF ~Authenticated(userId)
           THEN /\ last' = Call("replaceAll", Absent, NoExpense, batch, NoCredentials, FALSE,
                                "Not authenticated", <<>>, FALSE, NoUser)
                /\ UNCHANGED <<expenses, nextId, loads>>
           ELSE IF ~batch.isArray
           THEN /\ last' = Call("replaceAll", Absent, NoExpense, batch, NoCredentials, FALSE,
                                "Input must be an array", <<>>, FALSE, NoUser)
                /\ UNCHANGED <<expenses, nextId, loads>>
           ELSE IF \E i \in 1..Len(items) : Invalid(i)
           THEN /\ last' = Call("replaceAll", Absent, NoExpense, batch, NoCredentials, FALSE,
                                validateExpense(normalizedMine[firstInvalid]), <<>>, FALSE, NoUser)
                /\ expenses' = got.store
                /\ loads' = got.loads
                /\ UNCHANGED nextId
           ELSE /\ Len(finalList) <= MaxExpenses
                /\ nextId + generated <= MaxIds + 1
                /\ expenses' = setAll(got.store, finalList)
                /\ loads' = got.loads
                /\ nextId' = nextId + generated
                /\ last' = Call("replaceAll", Absent, NoExpense, batch, NoCredentials, TRUE, "",
                                normalizedMine, FALSE, NoUser)

\* ------------------------------------------------------------ arguments
\* "2024-01-15"
Jan15 == <<"2", "0", "2", "4", "-", "0", "1", "-", "1", "5">>

E1 == Str(<<"e", "1">>)
E2 == Str(<<"e", "2">>)

\* {date: "2024-01-15", amount: "12.345", category: " Food "}
FoodInput ==
    Expense(Absent, Str(Jan15), Str(<<"1", "2", ".", "3", "4", "5">>),
            Str(<<" ", "F", "o", "o", "d", " ">>), Absent, Absent, Absent, 0)

\* {id: "e1", userId: <user 1>, date: new Date(2024, 0, 15), amount: 5,
\*  category: "Rent", tags: "a, b"}
RentInput ==
    Expense(E1, DateObj(20240115), Num(5000), Str(<<"R", "e", "n", "t">>),
            Absent, Absent, Str(<<"a", ",", " ", "b">>), 1)

\* date "2024-1-5" does not match YYYY-MM-DD
BadDateInput ==
    [FoodInput EXCEPT !.date = Str(<<"2", "0", "2", "4", "-", "1", "-", "5">>)]

\* amount "abc" is no number
BadAmountInput == [FoodInput EXCEPT !.amount = Str(<<"a", "b", "c">>)]

\* category " " is empty once trimmed; the id is the caller's
BadCategoryInput == [RentInput EXCEPT !.category = Str(<<" ">>)]

CreateInputs == {FoodInput, RentInput, BadDateInput, BadAmountInput, BadCategoryInput}

\* {amount: "7.005"}
AmountPartial == [NoExpense EXCEPT !.amount = Str(<<"7", ".", "0", "0", "5">>)]

\* {id: "e2", userId: <user 2>, category: " Rent "}
SpoofPartial ==
    [NoExpense EXCEPT !.id = E2, !.userId = 2, !.category = Str(<<" ", "R", "e", "n", "t", " ">>)]

\* {category: " "}
BadPartial == [NoExpense EXCEPT !.category = Str(<<" ">>)]

UpdateInputs == {AmountPartial, SpoofPartial, BadPartial}

\* undefined, a caller's id, the first generated id
IdArgs == {Undef, E1, generateId(1)}

Batch(items) == [isArray |-> TRUE, items |-> items]

\* a string, [], [rent], [food], [food, bad date]
ReplaceInputs ==
    {NoBatch, Batch(<<>>), Batch(<<RentInput>>), Batch(<<FoodInput>>),
     Batch(<<FoodInput, BadDateInput>>)}

\* "A@x" / "b@x"
EmailA == <<"A", "@", "x">>
EmailB == <<"b", "@", "x">>

SignUpInputs ==
    {Credentials(Str(<<"A", "n", "n">>), Str(EmailA), Str(<<"p">>)),
     Credentials(Str(<<"B", "o", "b">>), Str(EmailB), Str(<<"q">>))}

LogInInputs ==
    {Credentials(Absent, Str(ToLowerCase(EmailA)), Str(<<"p">>)),
     Credentials(Absent, Str(EmailB), Str(<<"q">>))}

\* ------------------------------------------------------------ specification
\* No call is pending: the caller has taken the outcome of the last one.
NoCall ==
    [op |-> "none", user |-> 0, id |-> Absent, arg |-> NoExpense, batch |-> NoBatch,
     cred |-> NoCredentials, ok |-> TRUE, err |-> "", ret |-> <<>>, flag |-> FALSE, usr |-> NoUser]

Init ==
    /\ users = <<>>
    /\ session = NoSession
    /\ expenses = NoKey
    /\ nextId = 1
    /\ nextUserId = 1
    /\ medium = {}
    /\ loads = <<>>
    /\ waiting = <<>>
    /\ last = NoCall

\* The calls are made one after the other, each awaited: a call starts when the
\* outcome of the one before has been taken.
Idle == last = NoCall

SignUp ==
    /\ Idle
    /\ \E c \in SignUpInputs : signUp(c.name, c.email, c.password)
    /\ UNCHANGED <<medium, waiting>>

LogIn ==
    /\ Idle
    /\ \E c \in LogInInputs : logIn(c.email, c.password)
    /\ UNCHANGED <<medium, waiting>>

LogOut == Idle /\ logOut /\ UNCHANGED <<medium, waiting>>

GetSession ==
    /\ Idle
    /\ last' = Call("getSession", Absent, NoExpense, NoBatch, NoCredentials, TRUE, "", <<>>,
                    getSession # NoSession, NoUser)
    /\ UNCHANGED <<users, session, expenses, nextId, nextUserId, medium, loads, waiting>>

GetCurrentUser ==
    /\ Idle
    /\ last' = Call("getCurrentUser", Absent, NoExpense, NoBatch, NoCredentials, TRUE, "", <<>>,
                    getCurrentUser # NoUser, getCurrentUser)
    /\ UNCHANGED <<users, session, expenses, nextId, nextUserId, medium, loads, waiting>>

ListExpenses ==
    /\ Idle
    /\ \E seed \in Loads(expenses) : listExpenses(seed)
    /\ Len(loads') <= MaxLoads
    /\ UNCHANGED <<nextUserId, medium, waiting>>

GetById ==
    /\ Idle
    /\ \E id \in IdArgs, seed \in Loads(expenses) : getById(id, seed)
    /\ Len(loads') <= MaxLoads
    /\ UNCHANGED <<nextUserId, medium, waiting>>

Create ==
    /\ Idle
    /\ \E expense \in CreateInputs : create(expense)
    /\ UNCHANGED <<nextUserId, medium, waiting>>

Update ==
    /\ Idle
    /\ \E id \in IdArgs, partial \in UpdateInputs, seed \in Loads(expenses) : update(id, partial, seed)
    /\ Len(loads') <= MaxLoads
    /\ UNCHANGED <<nextUserId, medium, waiting>>

Remove ==
    /\ Idle
    /\ \E id \in IdArgs, seed \in Loads(expenses) : remove(id, seed)
    /\ Len(loads') <= MaxLoads
    /\ UNCHANGED <<nextUserId, medium, waiting>>

ReplaceAll ==
    /\ Idle
    /\ \E batch \in ReplaceInputs, seed \in Loads(expenses) : replaceAll(batch, seed)
    /\ Len(loads') <= MaxLoads
    /\ UNCHANGED <<nextUserId, medium, waiting>>

\* The caller takes the outcome (the value returned or the Error thrown).
Return ==
    /\ ~Idle
    /\ last' = NoCall
    /\ UNCHANGED <<users, session, expenses, nextId, nextUserId, medium, loads, waiting>>

Next ==
    \/ SignUp
    \/ LogIn
    \/ LogOut
    \/ GetSession
    \/ GetCurrentUser
    \/ ListExpenses
    \/ GetById
    \/ Create
    \/ Update
    \/ Remove
    \/ ReplaceAll
    \/ Return

Spec == Init /\ [][Next]_vars

\* ------------------------------------------------------------ auth.js alone
\* "A@x", "a@x", " a@x ", "b@x" and " " as emails; " " as a name; "" and
\* undefined for a missing field.
AuthSignUpInputs ==
    {Credentials(Str(<<"A", "n", "n">>), Str(EmailA), Str(<<"p">>)),
     Credentials(Str(<<"A", "n", "n">>), Str(ToLowerCase(EmailA)), Str(<<"q">>)),
     Credentials(Str(<<"B", "o", "b">>), Str(<<" ">> \o ToLowerCase(EmailA) \o <<" ">>), Str(<<"p">>)),
     Credentials(Str(<<"B", "o", "b">>), Str(EmailB), Str(<<"q">>)),
     Credentials(Str(<<" ">>), Str(<<" ">>), Str(<<"p">>)),
     Credentials(Str(<<"A", "n", "n">>), Undef, Str(<<"p">>)),
     Credentials(Str(<<"A", "n", "n">>), Str(EmailB), Str(<<>>))}

AuthLogInInputs ==
    {Credentials(Absent, Str(EmailA), Str(<<"p">>)),
     Credentials(Absent, Str(<<" ">> \o ToLowerCase(EmailA) \o <<" ">>), Str(<<"q">>)),
     Credentials(Absent, Str(EmailB), Str(<<"q">>)),
     Credentials(Absent, Str(<<"c", "@", "x">>), Str(<<"p">>)),
     Credentials(Absent, Undef, Str(<<"p">>))}

AuthSignUp ==
    /\ Idle
    /\ \E c \in AuthSignUpInputs : signUp(c.name, c.email, c.password)
    /\ UNCHANGED <<medium, waiting>>

AuthLogIn ==
    /\ Idle
    /\ \E c \in AuthLogInInputs : logIn(c.email, c.password)
    /\ UNCHANGED <<medium, waiting>>

NextAuth ==
    \/ AuthSignUp
    \/ AuthLogIn
    \/ LogOut
    \/ GetSession
    \/ GetCurrentUser
    \/ Return

SpecAuth == Init /\ [][NextAuth]_vars

\* ------------------------------------------------------------ the registry rewritten
\* setUsers(users) as a caller of auth.js may use it: the registry emptied, or
\* written back without its first user.
SetUsersInputs == {<<>>} \cup (IF users = <<>> THEN {} ELSE {Tail(users)})

SetUsers ==
    /\ Idle
    /\ \E list \in SetUsersInputs :
          /\ users' = setUsers(list)
          /\ last' = Call("setUsers", Absent, NoExpense, NoBatch, NoCredentials, TRUE, "", <<>>,
                          "setItem" \notin medium, NoUser)
    /\ UNCHANGED <<session, expenses, nextId, nextUserId, medium, loads, waiting>>

NextRegistry ==
    \/ SetUsers
    \/ SignUp
    \/ LogIn
    \/ LogOut
    \/ GetSession
    \/ GetCurrentUser
    \/ ListExpenses
    \/ GetById
    \/ Create
    \/ Update
    \/ Remove
    \/ ReplaceAll
    \/ Return

SpecRegistry == Init /\ [][NextRegistry]_vars

\* ------------------------------------------------------------ a failing medium
\* localStorage.getItem / setItem / removeItem start or stop throwing (quota
\* exceeded, access blocked) between two calls.
Fault ==
    /\ Idle
    /\ medium' \in (SUBSET {"getItem", "setItem", "removeItem"}) \ {medium}
    /\ UNCHANGED <<users, session, expenses, nextId, nextUserId, loads, waiting, last>>

\* A normalized record of user 1, as create stores it
StoreItem == normalizeExpense(withMeta(RentInput, generateId(1), 1))

\* storage.js called directly
StoreGetAll ==
    /\ Idle
    /\ \E seed \in Loads(expenses) :
          LET got == getAll(expenses, seed)
          IN  /\ expenses' = got.store
              /\ loads' = got.loads
              /\ last' = Call("getAll", Absent, NoExpense, NoBatch, NoCredentials, TRUE, "",
                              got.value, FALSE, NoUser)
    /\ Len(loads') <= MaxLoads
    /\ UNCHANGED <<users, session, nextId, nextUserId, medium, waiting>>

StoreSetAll ==
    /\ Idle
    /\ \E value \in {<<>>, <<StoreItem>>} :
          /\ expenses' = setAll(expenses, value)
          /\ last' = Call("setAll", Absent, NoExpense, Batch(value), NoCredentials, TRUE, "",
                          value, FALSE, NoUser)
    /\ UNCHANGED <<users, session, nextId, nextUserId, medium, loads, waiting>>

StoreAddItem ==
    /\ Idle
    /\ LET added == addItem(expenses, StoreItem)
       IN  IF added.threw
           THEN /\ last' = Call("addItem", Absent, StoreItem, NoBatch, NoCredentials, FALSE,
                                "TypeError", <<>>, FALSE, NoUser)
                /\ UNCHANGED expenses
           ELSE /\ Len(expenses.list) < MaxExpenses
                /\ expenses' = added.store
                /\ last' = Call("addItem", Absent, StoreItem, NoBatch, NoCredentials, TRUE, "",
                                Append(expenses.list, StoreItem), FALSE, NoUser)
    /\ UNCHANGED <<users, session, nextId, nextUserId, medium, loads, waiting>>

StoreUpdateItem ==
    /\ Idle
    /\ LET normalized == [StoreItem EXCEPT !.amount = Num(7010)]
           updated == updateItem(expenses, E1, 1, normalized)
       IN  IF updated.threw
           THEN /\ last' = Call("updateItem", E1, normalized, NoBatch, NoCredentials, FALSE,
                                "TypeError", <<>>, FALSE, NoUser)
                /\ UNCHANGED expenses
           ELSE /\ expenses' = updated.store
                /\ last' = Call("updateItem", E1, normalized, NoBatch, NoCredentials, TRUE, "",
                                <<>>, FALSE, NoUser)
    /\ UNCHANGED <<users, session, nextId, nextUserId, medium, loads, waiting>>

StoreRemoveItem ==
    /\ Idle
    /\ LET removed == removeItem(expenses, E1, 1)
       IN  IF removed.threw
           THEN /\ last' = Call("removeItem", E1, NoExpense, NoBatch, NoCredentials, FALSE,
                                "TypeError", <<>>, FALSE, NoUser)
                /\ UNCHANGED expenses
           ELSE /\ expenses' = removed.store
                /\ last' = Call("removeItem", E1, NoExpense, NoBatch, NoCredentials, TRUE, "",
                                <<>>, FALSE, NoUser)
    /\ UNCHANGED <<users, session, nextId, nextUserId, medium, loads, waiting>>

StoreClear ==
    /\ Idle
    /\ expenses' = clear(expenses).store
    /\ last' = Call("clear", Absent, NoExpense, NoBatch, NoCredentials, TRUE, "", <<>>,
                    clear(expenses).flag, NoUser)
    /\ UNCHANGED <<users, session, nextId, nextUserId, medium, loads, waiting>>

NextMedium ==
    \/ Fault
    \/ StoreGetAll
    \/ StoreSetAll
    \/ StoreAddItem
    \/ StoreUpdateItem
    \/ StoreRemoveItem
    \/ StoreClear
    \/ SignUp
    \/ LogIn
    \/ LogOut
    \/ GetSession
    \/ GetCurrentUser
    \/ ListExpenses
    \/ Remove
    \/ Return

SpecMedium == Init /\ [][NextMedium]_vars

\* ------------------------------------------------------------ calls not awaited
\* The sequence without its k-th element
RemoveAt(seq, k) == SubSeq(seq, 1, k - 1) \o SubSeq(seq, k + 1, Len(seq))

\* listExpenses() up to `await bootstrapLoader()`: the session is read, the key
\* gives no value, loadSeed() is called and the call is suspended until the
\* fetch settles; other calls start meanwhile (Charts and the list both call
\* listExpenses() when they mount).  seed is how the fetch will settle.
ListExpensesStart ==
    /\ Idle
    /\ ~safeGetItem(expenses).present
    /\ Len(waiting) < MaxWaiting
    /\ Len(loads) < MaxLoads
    /\ \E seed \in SeedOutcomes :
          /\ waiting' = Append(waiting, [userId |-> SessionUserId, seed |-> seed])
          /\ loads' = Append(loads, seed.ok)
    /\ UNCHANGED <<users, session, expenses, nextId, nextUserId, medium, last>>

\* A suspended listExpenses() goes on when its fetch has settled:
\* ensureInitialized persists the seed and returns it, or getAll catches the
\* Error, persists [] and returns []; listExpenses filters with the userId it
\* read before the await.
ListExpensesResume ==
    /\ Idle
    /\ \E k \in 1..Len(waiting) :
          LET w == waiting[k]
              value == IF w.seed.ok THEN w.seed.value ELSE <<>>
              mine == IF w.userId # 0 THEN Mine(value, w.userId) ELSE <<>>
          IN  /\ expenses' = safeSetItem(expenses, [present |-> TRUE, list |-> JsonList(value)])
              /\ waiting' = RemoveAt(waiting, k)
              /\ last' = [Call("listExpenses", Absent, NoExpense, NoBatch, NoCredentials, TRUE, "",
                               NormalizeAll(mine), FALSE, NoUser) EXCEPT !.user = w.userId]
    /\ UNCHANGED <<users, session, nextId, nextUserId, medium, loads>>

NextBoot ==
    \/ ListExpensesStart
    \/ ListExpensesResume
    \/ SignUp
    \/ LogIn
    \/ LogOut
    \/ ListExpenses
    \/ Create
    \/ ReplaceAll
    \/ Return

SpecBoot == Init /\ [][NextBoot]_vars

\* ------------------------------------------------------------ claims
\* The records of a list that carry the user id u, in order.
OwnedBy(list, u) ==
    LET Own(e) == e.userId = u
    IN  SelectSeq(list, Own)

\* No record of the list has this id and this owner.
NoneOwned(list, id, u) == \A i \in 1..Len(list) : ~(list[i].id = id /\ list[i].userId = u)

\* A step leaves the persisted expenses as they were: every user's records are
\* the same, and so is the whole stored list when the key held one (a first
\* getAll on an absent key stores the seed, or [], and nothing else).
SameCollection ==
    /\ \A u \in 1..Len(users) : OwnedBy(expenses'.list, u) = OwnedBy(expenses.list, u)
    /\ expenses.present => expenses' = expenses
    /\ ~expenses.present =>
          \/ expenses' = expenses
          \/ expenses'.present /\ expenses'.list \in {JsonList(SeedData), <<>>}

\* The conditions under which a normalized record must be rejected: date or
\* category missing or empty, date not YYYY-MM-DD, amount not a finite number,
\* tags not an array of strings.
WellFormed(n) ==
    /\ n.date.t = "str" /\ IsYMD(n.date.s)
    /\ n.category.t = "str" /\ Trim(n.category.s) # <<>>
    /\ n.amount.t = "num"
    /\ n.tags.t = "arr" /\ \A i \in 1..Len(n.tags.a) : n.tags.a[i].t = "str"

\* Two objects that differ only in keys that are missing in one and undefined
\* in the other.
SameObject(e1, e2) == JsonExpense(e1) = JsonExpense(e2)

\* The normalized form of what create / replaceAll is given, under user u.
Stamped(e, u) == normalizeExpense(withMeta(e, generateId(nextId), u))

\* C1: what listExpenses() and getById(id) return under a session is only
\* records that entered the collection under that same user's session; a
\* record created (or replaced in) under U1 is never returned while the
\* session's user is U2.
C1_ReadIsolation ==
    last.op \in {"listExpenses", "getById"} =>
        \A i \in 1..Len(last.ret) : last.ret[i].by = last.user

\* listExpenses() under one user returned records while the collection holds a
\* record another user created.
C1_Witness ==
    /\ last.op = "listExpenses"
    /\ last.user # 0
    /\ Len(last.ret) > 0
    /\ \E i \in 1..Len(expenses.list) : expenses.list[i].by \notin {0, last.user}

C2_Step ==
    (last'.op = "replaceAll" /\ session.userId # 0) =>
        LET U1 == session.userId
            NotU1(e) == e.userId # U1
        IN  /\ expenses.present =>
                SelectSeq(expenses'.list, NotU1) = SelectSeq(expenses.list, NotU1)
            /\ ~expenses.present =>
                SelectSeq(expenses'.list, NotU1) \in {JsonList(SeedData), <<>>}

\* C2: replaceAll(expenses) under user U1 leaves the records whose userId is
\* not U1 present, in order and field for field as they were; only records of
\* U1 come or go (on an absent key the records that are not U1's are the seed
\* the first getAll stores).
C2_ReplaceAllKeepsOthers == [][C2_Step]_vars

\* replaceAll returned, having stored records of the caller, and the collection
\* holds a record of another user.
C2_Witness ==
    /\ last.op = "replaceAll"
    /\ last.ok
    /\ Len(last.ret) > 0
    /\ \E i \in 1..Len(expenses.list) : expenses.list[i].userId \notin {0, last.user}

C3_Key(email) == ToLowerCase(Trim(email))

C3_Unique ==
    \A i, j \in 1..Len(users) : i # j => C3_Key(users[i].email) # C3_Key(users[j].email)

C3_Step ==
    (/\ last'.op = "signUp"
     /\ ~Falsy(last'.cred.name) /\ ~Falsy(last'.cred.email) /\ ~Falsy(last'.cred.password)
     /\ \E i \in 1..Len(users) : C3_Key(users[i].email) = C3_Key(ToStr(last'.cred.email)))
    => /\ ~last'.ok
       /\ last'.err = "An account with this email already exists"
       /\ users' = users

\* C3: no two users of the registry have emails equal after trimming and
\* lowercasing, and a signUp (name, email and password given) whose email so
\* normalized is that of an existing user fails with 'An account with this
\* email already exists' and adds no user.
C3_EmailUnique == []C3_Unique /\ [][C3_Step]_vars

\* A signUp was refused as a duplicate though its email is not, character for
\* character, the stored one.
C3_Witness ==
    /\ last.op = "signUp"
    /\ last.err = "An account with this email already exists"
    /\ \E i \in 1..Len(users) :
          /\ users[i].email # last.cred.email.s
          /\ C3_Key(users[i].email) = C3_Key(last.cred.email.s)

\* C4: with a session, in every storage state, create of an input that passes
\* validation returns the normalized record, stamped with the session's user,
\* the stored collection holds it and listExpenses() would return it.
C4_CreateSucceeds ==
    (last.op = "create" /\ last.user # 0 /\ WellFormed(Stamped(last.arg, last.user))) =>
        /\ last.ok
        /\ Len(last.ret) = 1
        /\ last.ret[1].userId = last.user
        /\ \E i \in 1..Len(expenses.list) : SameObject(expenses.list[i], last.ret[1])
        /\ \E i \in 1..Len(OwnedBy(expenses.list, last.user)) :
              SameObject(normalizeExpense(OwnedBy(expenses.list, last.user)[i]), last.ret[1])

\* C5 as claimed: with no session, create, update and replaceAll each fail with
\* 'Not authenticated'.
C5_AlwaysNotAuthenticated ==
    (last.op \in {"create", "update", "replaceAll"} /\ last.user = 0) =>
        (~last.ok /\ last.err = "Not authenticated")

C5_Step ==
    (last'.op \in {"create", "update", "replaceAll"} /\ session = NoSession) =>
        /\ ~last'.ok
        /\ last'.err = IF last'.op = "update" /\ Falsy(last'.id)
                       THEN "Id is required for update"
                       ELSE "Not authenticated"
        /\ expenses' = expenses

\* C5 amended: with no session, create, replaceAll and update with a non-empty
\* id fail with 'Not authenticated', update with an empty id fails with 'Id is
\* required for update', and the stored expenses are untouched in every case.
C5_NoSessionWriteFails == [][C5_Step]_vars

\* With no session: an update with an id was refused as not authenticated
\* while the collection holds records.
C5_Witness ==
    /\ last.op = "update"
    /\ last.user = 0
    /\ ~Falsy(last.id)
    /\ last.err = "Not authenticated"
    /\ \E i \in 1..Len(expenses.list) : expenses.list[i].userId # 0

\* C6 as claimed: with no session, remove(id) fails with 'Not authenticated'
\* for every id and returns no boolean.
C6_AlwaysNotAuthenticated ==
    (last.op = "remove" /\ last.user = 0) => (~last.ok /\ last.err = "Not authenticated")

C6_Step ==
    (last'.op = "remove" /\ session = NoSession) =>
        /\ IF Falsy(last'.id)
           THEN last'.ok /\ ~last'.flag
           ELSE ~last'.ok /\ last'.err = "Not authenticated"
        /\ expenses' = expenses

\* C6 amended: with no session, remove(id) fails with 'Not authenticated' for
\* every non-empty id and returns false for an empty one; the collection is
\* unchanged in both cases.
C6_NoSessionRemove == [][C6_Step]_vars

\* With no session: remove of the id of a stored record was refused.
C6_Witness ==
    /\ last.op = "remove"
    /\ last.user = 0
    /\ last.err = "Not authenticated"
    /\ \E i \in 1..Len(expenses.list) : expenses.list[i].id = last.id

C7_Rejected ==
    /\ ~last'.ok
    /\ last'.err \in ValidationMessages
    /\ SameCollection

C7_Step ==
    LET u == session.userId
        id == last'.id
        k == CHOOSE i \in 1..Len(expenses.list) :
                /\ expenses.list[i].id = id /\ expenses.list[i].userId = u
                /\ \A j \in 1..(i - 1) : ~(expenses.list[j].id = id /\ expenses.list[j].userId = u)
        merged == [Spread(expenses.list[k], last'.arg) EXCEPT !.id = id, !.userId = u]
        items == last'.batch.items
    IN  /\ (last'.op = "create" /\ u # 0 /\ ~WellFormed(Stamped(last'.arg, u)))
              => C7_Rejected
        /\ (/\ last'.op = "update" /\ u # 0 /\ ~Falsy(id)
            /\ ~NoneOwned(expenses.list, id, u)
            /\ ~WellFormed(normalizeExpense(merged)))
              => C7_Rejected
        /\ (/\ last'.op = "replaceAll" /\ u # 0 /\ last'.batch.isArray
            /\ \E i \in 1..Len(items) : ~WellFormed(Stamped(items[i], u)))
              => C7_Rejected
        /\ (last'.op \in {"create", "update", "replaceAll"} /\ last'.err \in ValidationMessages)
              => SameCollection

\* C7: with a session, a create, an update of an owned record or a replaceAll
\* whose normalized record (for replaceAll: one of them) has a missing or empty
\* date or category, a date that is not YYYY-MM-DD, a non-finite amount or tags
\* that are no array of strings throws a validation Error, and every user's
\* stored expenses are as before the call.
C7_InvalidWriteRejected == [][C7_Step]_vars

\* replaceAll threw on a batch with an ill-formed record while the caller and
\* another user had records stored.
C7_Witness ==
    /\ last.op = "replaceAll"
    /\ last.err = "Field \"date\" must be in format YYYY-MM-DD"
    /\ OwnedBy(expenses.list, last.user) # <<>>
    /\ \E i \in 1..Len(expenses.list) : expenses.list[i].userId \notin {0, last.user}

\* The stored property after an update: kept when the partial does not name
\* it, else the normalized new value as JSON stores it.
C8_Field(old, new, given, normal) ==
    IF given.t = "absent" THEN new = old ELSE new = Json(normal)

C8_Step ==
    (last'.op = "update" /\ last'.ok) =>
        /\ Len(expenses'.list) = Len(expenses.list)
        /\ \A i \in 1..Len(expenses.list) :
              LET old == expenses.list[i]
                  new == expenses'.list[i]
                  p == last'.arg
              IN  (old.id = last'.id /\ old.userId = session.userId) =>
                    /\ new.id = old.id
                    /\ new.userId = old.userId
                    /\ C8_Field(old.date, new.date, p.date, normalizeDate(p.date))
                    /\ C8_Field(old.amount, new.amount, p.amount, normalizeAmount(p.amount))
                    /\ C8_Field(old.category, new.category, p.category, normalizeString(p.category))
                    /\ C8_Field(old.description, new.description, p.description,
                                normalizeString(p.description))
                    /\ C8_Field(old.paymentMethod, new.paymentMethod, p.paymentMethod,
                                normalizeString(p.paymentMethod))
                    /\ C8_Field(old.tags, new.tags, p.tags, normalizeTags(p.tags))

\* C8: update(id, partial) merges: in a record of the current user with that
\* id every field the partial does not name keeps its stored value, a named
\* field takes the normalized new value, and id and userId stay what they were
\* whatever the partial says.
C8_UpdateMerges == [][C8_Step]_vars

C9_Step ==
    (/\ last'.op = "update"
     /\ session.userId # 0
     /\ Falsy(last'.id) \/ NoneOwned(expenses.list, last'.id, session.userId))
    => /\ ~last'.ok
       /\ last'.err = IF Falsy(last'.id) THEN "Id is required for update" ELSE "Expense not found"
       /\ SameCollection

\* C9: under a session, update(id, partial) with an empty id, or an id that no
\* record of the current user has (also when another user's record has it),
\* throws 'Id is required for update' / 'Expense not found' and changes no
\* user's records.
C9_UpdateNeedsOwnRecord == [][C9_Step]_vars

\* update was refused as not found for an id that a record of another user has.
C9_Witness ==
    /\ last.op = "update"
    /\ last.user # 0
    /\ last.err = "Expense not found"
    /\ \E i \in 1..Len(expenses.list) :
          expenses.list[i].id = last.id /\ expenses.list[i].userId \notin {0, last.user}

C10_Ids == IdArgs \cup {E2, generateId(2)}

C10_Step ==
    LET u == session.userId
        id == last'.id
        Keep(e) == ~(e.id = id /\ e.userId = u)
    IN  /\ (last'.op = "remove" /\ u # 0 /\ (Falsy(id) \/ NoneOwned(expenses.list, id, u))) =>
              (last'.ok /\ ~last'.flag /\ SameCollection)
        /\ (last'.op = "remove" /\ u # 0 /\ ~Falsy(id) /\ ~NoneOwned(expenses.list, id, u)) =>
              /\ last'.ok /\ last'.flag
              /\ expenses'.list = SelectSeq(expenses.list, Keep)
              /\ NoneOwned(expenses'.list, id, u)
        /\ \A v \in 1..Len(users), x \in C10_Ids :
              (/\ NoneOwned(expenses.list, x, v)
               /\ ~(last'.op \in {"create", "replaceAll"} /\ session.userId = v))
              => NoneOwned(expenses'.list, x, v)

\* C10: under a session, remove(id) of an id no record of the current user has
\* (also when another user's record has it) returns false and leaves the
\* collection as it was; remove(id) of an id the current user has returns
\* true and deletes exactly the records with that id and owner; and an id a
\* user does not have stays absent from that user's records until that user's
\* create or replaceAll stores it again.
C10_Remove == [][C10_Step]_vars

\* remove returned true under one user and the record of another user with the
\* same id is still stored.
C10_Witness ==
    /\ last.op = "remove"
    /\ last.flag
    /\ \E i \in 1..Len(expenses.list) :
          expenses.list[i].id = last.id /\ expenses.list[i].userId \notin {0, last.user}

C11_Step ==
    (last'.op = "replaceAll" /\ last'.ok) =>
        LET U1 == last'.user
            stored == OwnedBy(expenses'.list, U1)
            listed == NormalizeAll(stored)
        IN  /\ Len(last'.ret) = Len(last'.batch.items)
            /\ \A i \in 1..Len(last'.ret) : last'.ret[i].userId = U1
            /\ stored = JsonList(last'.ret)
            /\ Len(listed) = Len(last'.ret)
            /\ \A i \in 1..Len(listed) : SameObject(listed[i], last'.ret[i])

\* C11: a replaceAll(expenses) that returns under user U1 returns one record
\* per incoming record, each with userId U1 whatever userId the input carried;
\* the records of U1 in the stored collection are then exactly those returned
\* (the earlier ones are gone), and listExpenses() under U1 gives the returned
\* list.
C11_ReplaceAllStamps == [][C11_Step]_vars

\* replaceAll returned under user 2 for an input that names user 1 as owner.
C11_Witness ==
    /\ last.op = "replaceAll"
    /\ last.ok
    /\ last.user = 2
    /\ Len(last.ret) > 0
    /\ last.batch.items[1].userId = 1

\* A user of the registry has this email, up to case and surrounding blanks.
C12_Registered(email) ==
    \E i \in 1..Len(users) : C3_Key(users[i].email) = C3_Key(ToStr(email))

\* A user of the registry has this email and this password.
C12_Matches(email, password) ==
    \E i \in 1..Len(users) :
        /\ C3_Key(users[i].email) = C3_Key(ToStr(email))
        /\ users[i].password = ToStr(password)

C12_Step ==
    (/\ last'.op = "logIn"
     /\ ~Falsy(last'.cred.email) /\ ~Falsy(last'.cred.password)
     /\ ~C12_Matches(last'.cred.email, last'.cred.password))
    => /\ ~last'.ok
       /\ last'.err = "Invalid email or password"
       /\ last'.usr = NoUser
       /\ session' = session

\* C12: a logIn (email and password given) that no user's email and password
\* match fails with 'Invalid email or password', returns no user and leaves the
\* session alone, whether the email is that of a registered user (wrong
\* password) or of none: the outcome is the same in both cases.
C12_LogInFailureUniform == [][C12_Step]_vars

\* A logIn failed for the email of a registered user (wrong password).
C12_Witness ==
    /\ last.op = "logIn"
    /\ ~last.ok
    /\ ~Falsy(last.cred.email) /\ ~Falsy(last.cred.password)
    /\ C12_Registered(last.cred.email)

C13_Step ==
    (last'.op = "signUp" /\ last'.ok) =>
        LET new == users'[Len(users')]
        IN  /\ Len(users') = Len(users) + 1
            /\ SubSeq(users', 1, Len(users)) = users
            /\ \A i \in 1..Len(users) : users[i].id # new.id
            /\ session' = [userId |-> new.id]
            /\ getCurrentUser' = last'.usr
            /\ last'.usr.id = new.id
            /\ last'.usr.name = new.name
            /\ last'.usr.email = new.email
            /\ "password" \notin DOMAIN last'.usr

\* C13: a signUp that returns appends exactly one user, with an id no earlier
\* user has, to the registry and leaves the earlier users as they were; the
\* session is then that user's id, whatever session was active before;
\* getCurrentUser() then gives the user signUp returned, and that object has
\* the user's id, name and email and no password key.
C13_SignUpSetsSession == [][C13_Step]_vars

\* A signUp returned while another user's session was active.
C13_Witness ==
    /\ last.op = "signUp"
    /\ last.ok
    /\ last.user # 0
    /\ session.userId \notin {0, last.user}
    /\ Len(users) = 2

C14_Step ==
    /\ \A i \in 1..Len(users) : Len(users') >= i /\ users'[i] = users[i]
    /\ (last'.op = "signUp" /\ last'.ok) =>
          LET new == users'[Len(users')]
          IN  /\ Len(users') = Len(users) + 1
              /\ new.email = C3_Key(ToStr(last'.cred.email))
              /\ new.password = ToStr(last'.cred.password)
              /\ new.id = last'.usr.id
    /\ (/\ last'.op = "logIn"
        /\ ~Falsy(last'.cred.email) /\ ~Falsy(last'.cred.password)
        /\ C12_Matches(last'.cred.email, last'.cred.password)) =>
          /\ last'.ok
          /\ \E i \in 1..Len(users) :
                /\ users[i].email = C3_Key(ToStr(last'.cred.email))
                /\ users[i].password = ToStr(last'.cred.password)
                /\ last'.usr.id = users[i].id
                /\ session' = [userId |-> users[i].id]

\* C14: a signUp that returns records the email trimmed and lowercased, the
\* password, and the id it returns; no later logOut, logIn or signUp changes or
\* removes that record; and a logIn with that password and an email equal to
\* the recorded one up to case and surrounding blanks returns the user with
\* the recorded id and sets the session to it.
C14_CredentialsRoundTrip == [][C14_Step]_vars

\* A logIn returned the first user, after a second account was made, for an
\* email written otherwise than the recorded one.
C14_Witness ==
    /\ last.op = "logIn"
    /\ last.ok
    /\ Len(users) = 2
    /\ last.usr.id = users[1].id
    /\ session.userId = users[1].id
    /\ last.cred.email.s # users[1].email

C15_Step ==
    /\ last'.op = "logOut" =>
          /\ last'.ok
          /\ session' = NoSession
          /\ getSession' = NoSession
          /\ getCurrentUser' = NoUser
          /\ UNCHANGED <<users, expenses>>
    /\ (last'.op = "logOut" /\ session = NoSession) => UNCHANGED <<users, session, expenses>>
    /\ (last'.op = "getSession" /\ session = NoSession) => ~last'.flag
    /\ (last'.op = "getCurrentUser" /\ session = NoSession) => last'.usr = NoUser
    /\ (last'.op = "listExpenses" /\ session = NoSession) => last'.ok /\ last'.ret = <<>>

\* C15: logOut() always returns; afterwards the session key is absent, so
\* that getSession() and getCurrentUser() give null and listExpenses() gives
\* []; the users and the expenses are as before, and a logOut() with no
\* session changes nothing.
C15_LogOut == [][C15_Step]_vars

\* logOut returned for a user who has a stored expense.
C15_Witness ==
    /\ last.op = "logOut"
    /\ last.user # 0
    /\ session = NoSession
    /\ \E i \in 1..Len(expenses.list) : expenses.list[i].userId = last.user

C16_Step ==
    getCurrentUser = NoUser =>
        /\ (\/ last'.op \in {"create", "replaceAll"}
            \/ last'.op \in {"update", "remove"} /\ ~Falsy(last'.id))
           => ~last'.ok /\ last'.err = "Not authenticated"
        /\ last'.op \in {"listExpenses", "getById"} => last'.ok /\ last'.ret = <<>>

\* C16: in every state where getCurrentUser() gives null (no session, or a
\* session whose userId no user of the registry has), create and replaceAll,
\* and update and remove with a non-empty id, fail with 'Not authenticated',
\* listExpenses() gives [] and getById gives null.  (update and remove with an
\* empty id are the subject of C5 and C6.)
C16_ScopedToCurrentUser == [][C16_Step]_vars

\* The only Error that is not one of the services' own is the TypeError of
\* add / update / removeItem on a key that holds no value (the subject of C4).
C17_NoRaise ==
    last.err = "TypeError" =>
        /\ last.op \in {"create", "addItem", "updateItem", "removeItem"}
        /\ ~expenses.present

\* A write or a remove that throws leaves the value under the key as it was,
\* and clear reports it with false.
C17_Step ==
    /\ "setItem" \in medium =>
          /\ users' = users
          /\ session' \in {session, NoSession}
          /\ expenses' = expenses \/ (last'.op = "clear" /\ expenses' = NoKey)
    /\ "removeItem" \in medium =>
          /\ last'.op = "logOut" => session' = session
          /\ last'.op = "clear" => expenses' = expenses /\ ~last'.flag

\* C17: while localStorage.getItem, setItem or removeItem throw, no call of
\* storage.js, auth.js or expensesService.js ends with an Error that the
\* same call on a medium that does not throw would not end with, and a write
\* or remove that throws leaves the stored value as it was, reported at most
\* by a false returned.
C17_StorageFailuresAbsorbed == []C17_NoRaise /\ [][C17_Step]_vars

\* loadSeed() has been called at most once.
C18_Once == Len(loads) <= 1

\* Once the key holds a value no call makes a further loadSeed() call, and no
\* listExpenses() changes what the key holds.
C18_Step ==
    expenses.present =>
        /\ loads' = loads
        /\ last'.op = "listExpenses" => expenses' = expenses

\* C18: starting with the expenses key absent, loadSeed() is called at most
\* once in all, also when several listExpenses() calls start before the first
\* fetch has settled; and once the key holds a value no getAll calls the
\* loader or overwrites the key with the seed.
C18_SeedLoadedOnce == []C18_Once /\ [][C18_Step]_vars

C19_Step ==
    /\ loads' = Append(loads, FALSE) =>
          /\ ~expenses.present
          /\ expenses'.present
          /\ last'.err # "TypeError"
          /\ last'.op \in {"listExpenses", "getById"} =>
                last'.ok /\ last'.ret = <<>> /\ expenses'.list = <<>>
          /\ last'.op = "update" => last'.err = "Expense not found" /\ expenses'.list = <<>>
          /\ last'.op = "remove" => last'.ok /\ ~last'.flag /\ expenses'.list = <<>>
          /\ last'.op = "replaceAll" =>
                expenses'.list = (IF last'.ok THEN JsonList(last'.ret) ELSE <<>>)
    /\ expenses.present =>
          /\ expenses'.present
          /\ loads' = loads
          /\ last'.op = "listExpenses" =>
                /\ expenses' = expenses
                /\ last'.ret = (IF last'.user = 0 THEN <<>>
                                ELSE NormalizeAll(OwnedBy(expenses.list, last'.user)))

\* C19: when loadSeed() fails in the getAll a call makes on the absent
\* expenses key, getAll gives [] without an Error (listExpenses gives [],
\* getById null, update 'Expense not found', remove false, replaceAll stores
\* the caller's records alone) and the key then holds a collection; from then
\* on the key always holds one, no call makes a loadSeed() call, and
\* listExpenses() gives the session user's records of the stored collection.
C19_FailedSeedFallsBack == [][C19_Step]_vars

\* After the only loadSeed() call failed, a listExpenses() returned records
\* of the stored collection.
C19_Witness ==
    /\ loads = <<FALSE>>
    /\ expenses.present
    /\ last.op = "listExpenses"
    /\ Len(last.ret) > 0

\* A record that the bootstrap stored: it entered the collection under no
\* session.
C20_Seeded(e) == e.by = 0

\* C20: a record loaded by the bootstrap never gets a userId, and no
\* listExpenses() or getById() returns one, whoever the session's user is.
C20_SeedNeverListed ==
    /\ \A i \in 1..Len(expenses.list) : C20_Seeded(expenses.list[i]) => expenses.list[i].userId = 0
    /\ last.op \in {"listExpenses", "getById"} =>
          \A i \in 1..Len(last.ret) : ~C20_Seeded(last.ret[i]) /\ last.ret[i].userId # 0

\* listExpenses() returned records to a user while the collection holds a
\* seeded record, which is not among them.
C20_Witness ==
    /\ last.op = "listExpenses"
    /\ last.user # 0
    /\ Len(last.ret) > 0
    /\ Len(last.ret) < Len(expenses.list)
    /\ \E i \in 1..Len(expenses.list) : C20_Seeded(expenses.list[i])

\* C21: every record of the stored collection has a userId, and it is the id
\* of the user whose session was active when the record entered the
\* collection.
C21_EveryRecordOwned ==
    \A i \in 1..Len(expenses.list) :
        /\ expenses.list[i].userId # 0
        /\ expenses.list[i].userId = expenses.list[i].by

\* A string with no blank at either end, and not empty
C22_Trimmed(chars) == chars # <<>> /\ Trim(chars) = chars

\* C22: every stored record that has an owner has a date of the form
\* YYYY-MM-DD, a category that is a non-empty trimmed string, an amount that
\* is a finite number with at most two decimals, and tags that is an array of
\* non-empty trimmed strings.
C22_StoredCanonical ==
    \A i \in 1..Len(expenses.list) :
        LET e == expenses.list[i]
        IN  e.userId # 0 =>
                /\ e.date.t = "str" /\ IsYMD(e.date.s)
                /\ e.category.t = "str" /\ C22_Trimmed(e.category.s)
                /\ e.amount.t = "num" /\ e.amount.n % 10 = 0
                /\ e.tags.t = "arr"
                /\ \A k \in 1..Len(e.tags.a) :
                      e.tags.a[k].t = "str" /\ C22_Trimmed(e.tags.a[k].s)

\* A stored record of a user that came from tags given as "a, b" and was then
\* updated with the amount "7.005".
C22_Witness ==
    /\ last.op = "update"
    /\ last.ok
    /\ \E i \in 1..Len(expenses.list) :
          /\ expenses.list[i].userId # 0
          /\ expenses.list[i].tags = Arr(<<Str(<<"a">>), Str(<<"b">>)>>)
          /\ expenses.list[i].amount = Num(7010)

\* ------------------------------------------------ normalizeExpense alone
\* normalizeExpense applied to an input and then to its own result.  The input
\* is drawn in the initial state; last.ret holds the results.
NormalizeDates ==
    {Str(Jan15), Str(<<" ">> \o Jan15 \o <<" ">>), DateObj(20240115),
     Str(<<"2", "0", "2", "4", "-", "1", "-", "5">>)}

\* "12.345", 12.345, 5, "abc", 40000000000000.086, 40000000000000.1
NormalizeAmounts ==
    {Str(<<"1", "2", ".", "3", "4", "5">>), Num(12345), Num(5000),
     Str(<<"a", "b", "c">>), Num(Huge + 11), Num(Huge + 13)}

NormalizeCategories == {Str(<<" ", "F", "o", "o", "d", " ">>), Str(<<"F", "o", "o", "d">>)}

\* no tags, null, undefined, "a, b", [" a ", null, 5, ""], 7
NormalizeTagInputs ==
    {Absent, Null, Undef, Str(<<"a", ",", " ", "b">>),
     Arr(<<Str(<<" ", "a", " ">>), Null, Num(5000), Str(<<>>)>>), Num(7000)}

NormalizeInputs ==
    {Expense(Absent, d, a, c, Absent, Absent, t, 0) :
        d \in NormalizeDates, a \in NormalizeAmounts,
        c \in NormalizeCategories, t \in NormalizeTagInputs}

InitNormalize ==
    /\ users = <<>>
    /\ session = NoSession
    /\ expenses = NoKey
    /\ nextId = 1
    /\ nextUserId = 1
    /\ medium = {}
    /\ loads = <<>>
    /\ waiting = <<>>
    /\ \E x \in NormalizeInputs : last = [NoCall EXCEPT !.op = "input", !.arg = x]

\* normalizeExpense(x), and whether validateExpense accepts the result
NormalizeOnce ==
    /\ last.op = "input"
    /\ LET normalized == normalizeExpense(last.arg)
           message == validateExpense(normalized)
       IN  last' = [last EXCEPT !.op = "normalizeExpense", !.ok = (message = ""),
                                !.err = message, !.ret = <<normalized>>]
    /\ UNCHANGED <<users, session, expenses, nextId, nextUserId, medium, loads, waiting>>

\* normalizeExpense(normalizeExpense(x))
NormalizeTwice ==
    /\ last.op = "normalizeExpense"
    /\ last' = [last EXCEPT !.op = "normalizeExpense twice",
                            !.ret = <<last.ret[1], normalizeExpense(last.ret[1])>>]
    /\ UNCHANGED <<users, session, expenses, nextId, nextUserId, medium, loads, waiting>>

NextNormalize ==
    \/ NormalizeOnce
    \/ NormalizeTwice

SpecNormalize == InitNormalize /\ [][NextNormalize]_vars

\* C23: normalizeExpense is idempotent on valid inputs: when the normalized
\* form of an input passes validateExpense, normalizing it again gives the
\* same object field for field.
C23_NormalizeIdempotent ==
    (last.op = "normalizeExpense twice" /\ last.ok) => last.ret[2] = last.ret[1]

\* The last record of the stored collection
C24_Stored(store) == store.list[Len(store.list)]

\* What create makes of {date: "2024-01-15", amount: "12.345", category: " Food "}
C24_Normalized(e) ==
    /\ e.amount = Num(12350)
    /\ e.category = Str(<<"F", "o", "o", "d">>)
    /\ e.tags = Arr(<<>>)
    /\ e.date = Str(Jan15)

C24_Step ==
    (last'.op = "create" /\ last'.ok /\ last'.arg = FoodInput) =>
        /\ session.userId # 0
        /\ Len(expenses'.list) = Len(expenses.list) + 1
        /\ C24_Normalized(C24_Stored(expenses'))
        /\ C24_Stored(expenses').userId = session.userId
        /\ last'.ret = <<C24_Stored(expenses')>>

\* C24: create normalizes before storing: a create under a session with amount
\* "12.345", category " Food " and no tags that returns has stored, and
\* returns, a record with amount 12.35, category "Food" and tags [].
C24_CreateNormalizes == [][C24_Step]_vars

C24_Witness ==
    /\ last.op = "create"
    /\ last.ok
    /\ last.arg = FoodInput
    /\ expenses.list # <<>>
    /\ C24_Stored(expenses).amount = Num(12350)
    /\ C24_Stored(expenses).tags = Arr(<<>>)

\* ------------------------------------------------ overlapping updates
\* update() calls that are not awaited one by one: a second call starts while
\* the first is suspended at `await getAll(...)`.  The collection is
\* initialised, so getAll reads the key before the await; what follows the
\* await (find, merge, normalize, validate, updateItem) runs when the call
\* goes on.  A call that has returned stays in waiting, marked done.
CategoryPartial == [NoExpense EXCEPT !.category = Str(<<" ", "F", "u", "n", " ">>)]

OverlapInputs == {AmountPartial, CategoryPartial}

\* update(id, partial) up to `await getAll(StorageKeys.EXPENSES)`
UpdateStart ==
    /\ Idle
    /\ safeGetItem(expenses).present
    /\ Authenticated(SessionUserId)
    /\ Len(waiting) < MaxWaiting
    /\ \E id \in IdArgs \ {Undef}, partial \in OverlapInputs :
          waiting' = Append(waiting,
                        [op |-> "update", userId |-> SessionUserId, id |-> id, arg |-> partial,
                         list |-> getAll(expenses, [ok |-> FALSE, value |-> <<>>]).value,
                         done |-> FALSE, ok |-> FALSE])
    /\ UNCHANGED <<users, session, expenses, nextId, nextUserId, medium, loads, last>>

\* update(id, partial) from the await on, with the list it read before
UpdateResume ==
    /\ Idle
    /\ \E k \in 1..Len(waiting) :
          LET w == waiting[k]
              found == FindIndex(w.list, w.id, w.userId)
              existing == w.list[found]
              merged == [Spread(existing, w.arg) EXCEPT !.id = w.id, !.userId = w.userId]
              normalized == normalizeExpense(merged)
              invalid == validateExpense(normalized)
              updated == updateItem(expenses, w.id, w.userId, normalized)
              outcome(ok, err, ret) ==
                  [Call("update", w.id, w.arg, NoBatch, NoCredentials, ok, err, ret, FALSE, NoUser)
                      EXCEPT !.user = w.userId]
          IN  /\ ~w.done
              /\ IF found = 0
                 THEN /\ last' = outcome(FALSE, "Expense not found", <<>>)
                      /\ UNCHANGED expenses
                 ELSE IF invalid # ""
                 THEN /\ last' = outcome(FALSE, invalid, <<>>)
                      /\ UNCHANGED expenses
                 ELSE IF updated.threw
                 THEN /\ last' = outcome(FALSE, "TypeError", <<>>)
                      /\ UNCHANGED expenses
                 ELSE /\ expenses' = updated.store
                      /\ last' = outcome(TRUE, "", <<normalized>>)
              /\ waiting' = [waiting EXCEPT ![k].done = TRUE, ![k].ok = last'.ok]
    /\ UNCHANGED <<users, session, nextId, nextUserId, medium, loads>>

NextOverlap ==
    \/ UpdateStart
    \/ UpdateResume
    \/ SignUp
    \/ ListExpenses
    \/ Create
    \/ Return

SpecOverlap == Init /\ [][NextOverlap]_vars

\* The call of waiting that goes on in this step
C25_Resumed(k) == ~waiting[k].done /\ waiting'[k].done

\* The field of the record the call found in the list it read when it started
C25_AsRead(w, field) == normalizeExpense(w.list[FindIndex(w.list, w.id, w.userId)])[field]

C25_Step ==
    \A k \in 1..Len(waiting) :
        (C25_Resumed(k) /\ last'.ok) =>
            \A i \in 1..Len(expenses.list) :
                Matches(expenses.list[i], waiting[k].id, waiting[k].userId) =>
                    /\ waiting[k].arg = CategoryPartial =>
                          /\ expenses'.list[i].category = Str(<<"F", "u", "n">>)
                          /\ expenses'.list[i].amount = C25_AsRead(waiting[k], "amount")
                    /\ waiting[k].arg = AmountPartial =>
                          /\ expenses'.list[i].amount = Num(7010)
                          /\ expenses'.list[i].category = C25_AsRead(waiting[k], "category")

\* C25: writes are not serialized, so the last write wins: an update that goes
\* on after its await writes every field it did not name back as it read it
\* when it started, whatever has been stored since; two overlapping updates
\* of one record can both return and the stored record lack the change of one.
C25_LastWriteWins == [][C25_Step]_vars

\* Two updates of the same record, one of the amount and one of the category,
\* have both returned without error, and the stored record has the new
\* category and the amount from before both.
C25_Witness ==
    \E a, b \in 1..Len(waiting) :
        /\ waiting[a].done /\ waiting[a].ok /\ waiting[a].arg = AmountPartial
        /\ waiting[b].done /\ waiting[b].ok /\ waiting[b].arg = CategoryPartial
        /\ waiting[a].id = waiting[b].id
        /\ waiting[a].userId = waiting[b].userId
        /\ \E i \in 1..Len(expenses.list) :
              /\ Matches(expenses.list[i], waiting[a].id, waiting[a].userId)
              /\ expenses.list[i].category = Str(<<"F", "u", "n">>)
              /\ expenses.list[i].amount = Num(5000)

C26_Step ==
    \A i \in 1..Len(users) : Len(users') >= i /\ users'[i] = users[i]

\* C26: the user registry is append-only through the API: no call, also one
\* during which a storage read or write fails, removes a registered user or
\* changes a field of a stored user record.
C26_RegistryAppendOnly == [][C26_Step]_vars

\* C27: expense ids are unique within a user's records: no two stored
\* records of one user have the same id, and every record of a user has a
\* non-empty id.
C27_IdsUniquePerUser ==
    /\ \A i, j \in 1..Len(expenses.list) :
          (/\ i # j
           /\ expenses.list[i].userId # 0
           /\ expenses.list[i].userId = expenses.list[j].userId)
              => expenses.list[i].id # expenses.list[j].id
    /\ \A i \in 1..Len(expenses.list) :
          expenses.list[i].userId # 0 => ~Falsy(expenses.list[i].id)

C28_Step ==
    (last'.op \in {"logIn", "signUp"} /\ ~last'.ok) =>
        /\ users' = users
        /\ session' = session

\* C28: a failed authentication call has no effect: when logIn or signUp
\* fails, the session and the user registry are as they were before the call;
\* a user who was logged in stays logged in.
C28_FailedAuthNoEffect == [][C28_Step]_vars

\* A logIn with a wrong password has failed while a user is logged in.
C28_Witness ==
    /\ last.op = "logIn"
    /\ ~last.ok
    /\ last.err = "Invalid email or password"
    /\ session.userId # 0
    /\ getCurrentUser.id = session.userId

\* ------------------------------------------------ overlapping creates
\* create(), listExpenses() and getById() calls that are not awaited one by
\* one, on an initialised collection.  create runs up to `await addItem(...)`
\* without an await: addItem, which is not async, has read the key and written
\* it when the call is suspended.  listExpenses and getById read the key in
\* getAll before they are suspended.  A create that has returned stays in
\* waiting, marked done; at is the place of its record in the stored list and
\* overlaps tells whether another call was suspended when it started.
ValidInputs == {FoodInput, RentInput}

\* create(expense) up to the await: session, normalize, validate, addItem
CreateStart ==
    /\ Idle
    /\ safeGetItem(expenses).present
    /\ Authenticated(SessionUserId)
    /\ Len(waiting) < MaxWaiting
    /\ Len(expenses.list) < MaxExpenses
    /\ \E expense \in ValidInputs :
          LET userId == SessionUserId
              normalized == normalizeExpense(withMeta(expense, generateId(nextId), userId))
              added == addItem(expenses, normalized)
          IN  /\ NeedsId(expense) => nextId <= MaxIds
              /\ validateExpense(normalized) = ""
              /\ ~added.threw
              /\ expenses' = added.store
              /\ nextId' = IF NeedsId(expense) THEN nextId + 1 ELSE nextId
              /\ waiting' = Append(waiting,
                               [op |-> "create", userId |-> userId, id |-> normalized.id,
                                arg |-> expense, list |-> <<normalized>>,
                                at |-> Len(added.store.list), done |-> FALSE,
                                overlaps |-> \E j \in 1..Len(waiting) : ~waiting[j].done])
    /\ UNCHANGED <<users, session, nextUserId, medium, loads, last>>

\* create(expense) from the await on: return normalized
CreateReturn ==
    /\ Idle
    /\ \E k \in 1..Len(waiting) :
          LET w == waiting[k]
          IN  /\ w.op = "create"
              /\ ~w.done
              /\ last' = [Call("create", Absent, w.arg, NoBatch, NoCredentials, TRUE, "", w.list, FALSE, NoUser)
                             EXCEPT !.user = w.userId]
              /\ waiting' = [waiting EXCEPT ![k].done = TRUE]
    /\ UNCHANGED <<users, session, expenses, nextId, nextUserId, medium, loads>>

\* listExpenses() up to `await getAll(...)`, the key present
ListExpensesRead ==
    /\ Idle
    /\ safeGetItem(expenses).present
    /\ Len(waiting) < MaxWaiting
    /\ waiting' = Append(waiting,
                     [op |-> "listExpenses", userId |-> SessionUserId, id |-> Absent,
                      arg |-> NoExpense, list |-> expenses.list, at |-> 0, done |-> FALSE,
                         overlaps |-> FALSE])
    /\ UNCHANGED <<users, session, expenses, nextId, nextUserId, medium, loads, last>>

\* listExpenses() from the await on: filter and normalize the list it read
ListExpensesReturn ==
    /\ Idle
    /\ \E k \in 1..Len(waiting) :
          LET w == waiting[k]
              mine == IF w.userId # 0 THEN Mine(w.list, w.userId) ELSE <<>>
          IN  /\ w.op = "listExpenses"
              /\ last' = [Call("listExpenses", Absent, NoExpense, NoBatch, NoCredentials, TRUE, "",
                               NormalizeAll(mine), FALSE, NoUser) EXCEPT !.user = w.userId]
              /\ waiting' = RemoveAt(waiting, k)
    /\ UNCHANGED <<users, session, expenses, nextId, nextUserId, medium, loads>>

\* getById(id) up to `await getAll(...)`, the key present
GetByIdRead ==
    /\ Idle
    /\ safeGetItem(expenses).present
    /\ Authenticated(SessionUserId)
    /\ Len(waiting) < MaxWaiting
    /\ \E id \in IdArgs \ {Undef} :
          waiting' = Append(waiting,
                        [op |-> "getById", userId |-> SessionUserId, id |-> id,
                         arg |-> NoExpense, list |-> expenses.list, at |-> 0, done |-> FALSE,
                         overlaps |-> FALSE])
    /\ UNCHANGED <<users, session, expenses, nextId, nextUserId, medium, loads, last>>

\* getById(id) from the await on: find in the list it read
GetByIdReturn ==
    /\ Idle
    /\ \E k \in 1..Len(waiting) :
          LET w == waiting[k]
              found == FindIndex(w.list, w.id, w.userId)
          IN  /\ w.op = "getById"
              /\ last' = [Call("getById", w.id, NoExpense, NoBatch, NoCredentials, TRUE, "",
                               IF found # 0 THEN <<normalizeExpense(w.list[found])>> ELSE <<>>,
                               found # 0, NoUser) EXCEPT !.user = w.userId]
              /\ waiting' = RemoveAt(waiting, k)
    /\ UNCHANGED <<users, session, expenses, nextId, nextUserId, medium, loads>>

NextCreates ==
    \/ CreateStart
    \/ CreateReturn
    \/ ListExpensesRead
    \/ ListExpensesReturn
    \/ GetByIdRead
    \/ GetByIdReturn
    \/ SignUp
    \/ ListExpenses
    \/ Return

SpecCreates == Init /\ [][NextCreates]_vars

\* C29: no create is lost: on an initialised collection, with create,
\* listExpenses and getById calls overlapping at their awaits, the record of
\* every create that has returned is in the stored collection, at the place
\* where the call appended it.
C29_NoCreateLost ==
    \A k \in 1..Len(waiting) :
        (waiting[k].op = "create" /\ waiting[k].done) =>
            /\ waiting[k].at <= Len(expenses.list)
            /\ expenses.list[waiting[k].at] = JsonExpense(waiting[k].list[1])

\* Two creates have both returned, the second of which started while the
\* first was suspended.
C29_Witness ==
    /\ Len(waiting) >= 2
    /\ waiting[1].op = "create" /\ waiting[1].done
    /\ waiting[2].op = "create" /\ waiting[2].done /\ waiting[2].overlaps
    /\ waiting[1].at # waiting[2].at
    /\ last.op = "create"

\* C30: every user stored in the registry has a non-empty name, a non-empty
\* email and a non-empty password.
C30_StoredUsersComplete ==
    \A i \in 1..Len(users) :
        /\ users[i].name # <<>>
        /\ users[i].email # <<>>
        /\ users[i].password # <<>>

====
